---- MODULE Spec2Model ----
(***************************************************************************)
(* Employee statistics API (app/services/statistics.py, app/api/           *)
(* endpoints.py, app/models/responses.py, app/main.py).                    *)
(*                                                                         *)
(* The source file is a JSON document; load_dataframe() turns it into a    *)
(* pandas DataFrame and functools.lru_cache memoises the result.  Every    *)
(* endpoint handler calls one query function, which reads the cached       *)
(* frame.                                                                  *)
(*                                                                         *)
(* Encoding.  Names are tuples of character codes, so that str.lower() is  *)
(* computed.  Numeric cells are integers; NaN, None, JsonNull and          *)
(* NonNumeric are negative integers no salary takes.  Industries are       *)
(* strings; the string NoneIndustry stands for Python's None in that       *)
(* column and in the optional industry argument.  A statistic is a         *)
(* fraction <<numerator, denominator>>; the fraction <<0, 0>> is NaN.      *)
(* The columns date_of_birth, gender and age are not modelled: none of the *)
(* modelled handlers returns or filters on them.                           *)
(***************************************************************************)
EXTENDS Integers, Sequences, FiniteSets, TLC

VARIABLES
    file,      \* content of the file at DATA_PATH (never written by the program)
    ready,     \* the FastAPI application object exists and accepts requests
    cache,     \* lru_cache of load_dataframe: <<>> or <<frame>>
    loads,     \* number of times the body of load_dataframe has been entered
    req,       \* sequential server: the request served last
    resp,      \* sequential server: its response
    pc,        \* threadpool: where each worker thread is in its request
    treq,      \* threadpool: the request each worker thread serves
    local,     \* threadpool: the frame load_dataframe() returned to the thread
    tresp      \* threadpool: the response of each worker thread

vars == <<file, ready, cache, loads, req, resp, pc, treq, local, tresp>>

seqVars == <<req, resp>>
poolVars == <<pc, treq, local, tresp>>

---------------------------------------------------------------------------
(* Bounds of the model *)

MaxRecords == 3
MaxArg == 3
MaxLoads == 3
NumThreads == 2

---------------------------------------------------------------------------
(* Values *)

NaN == -1
None == -2
JsonNull == -3
NonNumeric == -4
NoneIndustry == "None"

Al == <<65, 108>>
al == <<97, 108>>
Bo == <<66, 111>>
Ng == <<78, 103>>
NG == <<78, 71>>
Yu == <<89, 117>>

Min(a, b) == IF a < b THEN a ELSE b

\* The sequence [i \in 1..n |-> e] as a tuple.
List(f) == SubSeq(f, 1, Len(f))

\* One record of the JSON file, as json.load returns it.
Row(f, l, s, y, i) ==
    [first_name |-> f, last_name |-> l, salary |-> s,
     years_of_experience |-> y, industry |-> i]

\* The records the bounded source files are made of.
Employees ==
    { Row(Al, Ng, 2, 1, "Tech"),
      Row(al, NG, 2, 2, "Retail"),
      Row(Bo, Ng, 1, 2, "Tech"),
      Row(Al, Yu, JsonNull, 1, "Retail"),
      Row(Bo, Yu, NonNumeric, JsonNull, NoneIndustry),
      Row(al, Ng, 1, JsonNull, "Health") }

RECURSIVE SeqsUpTo(_, _)
SeqsUpTo(S, n) ==
    IF n = 0 THEN { <<>> }
    ELSE LET shorter == SeqsUpTo(S, n - 1)
         IN  shorter \cup { Append(s, x) : s \in { t \in shorter : Len(t) = n - 1 }, x \in S }

\* The file: absent, not JSON, a JSON list of records, or a JSON object of
\* columns (modelled with no rows only: with rows it builds the frame the list
\* of the same records builds).
Files ==
    { [kind |-> "missing", rows |-> <<>>], [kind |-> "garbage", rows |-> <<>>],
      [kind |-> "columns", rows |-> <<>>] }
    \cup { [kind |-> "records", rows |-> r] : r \in SeqsUpTo(Employees, MaxRecords) }

---------------------------------------------------------------------------
(* load_dataframe *)

to_numeric(v) == IF v \in {JsonNull, NonNumeric} THEN NaN ELSE v

\* The frame pd.DataFrame(data) and the coercions build: one row per record,
\* labelled 0, 1, ... in file order.
preprocess(rows) ==
    List([i \in 1..Len(rows) |->
            [index |-> i - 1,
             first_name |-> rows[i].first_name,
             last_name |-> rows[i].last_name,
             salary |-> to_numeric(rows[i].salary),
             years_of_experience |-> to_numeric(rows[i].years_of_experience),
             industry |-> rows[i].industry]])

\* The body of load_dataframe: open() raises on a missing file, json.load on
\* text that is not JSON, df["salary"] on a frame without columns (the frame
\* of an empty list).
load_body(f) ==
    IF f.kind = "missing" THEN [ok |-> FALSE, exc |-> "FileNotFoundError", rows |-> <<>>]
    ELSE IF f.kind = "garbage" THEN [ok |-> FALSE, exc |-> "JSONDecodeError", rows |-> <<>>]
    ELSE IF f.kind = "records" /\ f.rows = <<>>
         THEN [ok |-> FALSE, exc |-> "KeyError", rows |-> <<>>]
    ELSE [ok |-> TRUE, exc |-> "", rows |-> preprocess(f.rows)]

---------------------------------------------------------------------------
(* pandas and pydantic operations the query functions use *)

NumericColumns == {"salary", "years_of_experience"}

\* .replace({float("nan"): None}) on a cell of a column: NaN is a cell of a
\* numeric column only.
replace_nan(col, v) == IF col \in NumericColumns /\ v = NaN THEN None ELSE v

\* df.iloc[start:stop]: a Python slice, clipped to the frame.
iloc(df, start, stop) == SubSeq(df, start + 1, Min(stop, Len(df)))

\* df.head(n)
head(s, n) == SubSeq(s, 1, Min(n, Len(s)))

\* str.lower() on ASCII text.
lower(s) ==
    List([i \in 1..Len(s) |-> IF s[i] >= 65 /\ s[i] <= 90 THEN s[i] + 32 ELSE s[i]])

\* pd.isnull on a cell of a column (a name is never missing in a modelled file).
isnull(col, v) ==
    IF col \in NumericColumns THEN v = NaN
    ELSE IF col = "industry" THEN v = NoneIndustry
    ELSE FALSE

Perms(n) == { p \in [1..n -> 1..n] : \A i, j \in 1..n : i # j => p[i] # p[j] }

\* df.sort_values(by=col, ascending=False): kind defaults to "quicksort",
\* which numpy does not keep stable, and na_position to "last".  Rows come
\* out in descending order of the column; rows whose cell is NaN follow, in
\* frame order; rows of equal value come out in an order the sort's
\* implementation picks.
sort_values(df, col) ==
    LET n == Len(df)
        sorted(p) ==
            \A i \in 1..(n - 1) :
                LET a == df[p[i]][col]
                    b == df[p[i + 1]][col]
                IN  IF a = NaN THEN b = NaN /\ p[i] < p[i + 1]
                    ELSE b = NaN \/ a >= b
    IN  { List([i \in 1..n |-> df[p[i]]]) : p \in { q \in Perms(n) : sorted(q) } }

\* Series.dropna().unique() of the industry column: its distinct non-missing
\* values, in order of first occurrence.
RECURSIVE unique(_)
unique(s) ==
    IF s = <<>> THEN <<>>
    ELSE LET u == unique(SubSeq(s, 1, Len(s) - 1))
             v == s[Len(s)]
         IN  IF isnull("industry", v) \/ \E i \in 1..Len(u) : u[i] = v THEN u ELSE Append(u, v)

column(df, col) == List([i \in 1..Len(df) |-> df[i][col]])

occurrences(s, v) == Cardinality({ i \in 1..Len(s) : s[i] = v })

\* Series.value_counts(): one <<value, count>> per distinct non-missing value,
\* by count descending (Series.sort_values, "quicksort" again: values of
\* equal count come out in an order the sort's implementation picks).
value_counts(s) ==
    LET u == unique(s)
        k == Len(u)
        sorted(p) ==
            \A i \in 1..(k - 1) : occurrences(s, u[p[i]]) >= occurrences(s, u[p[i + 1]])
    IN  { List([i \in 1..k |-> <<u[p[i]], occurrences(s, u[p[i]])>>]) :
            p \in { q \in Perms(k) : sorted(q) } }

\* PersonRecord(**d): the declared fields, None for an optional one not given.
PersonRecord(d) ==
    [first_name |-> d.first_name,
     last_name |-> d.last_name,
     salary |-> IF "salary" \in DOMAIN d THEN d.salary ELSE None,
     years_of_experience |->
        IF "years_of_experience" \in DOMAIN d THEN d.years_of_experience ELSE None,
     industry |-> IF "industry" \in DOMAIN d THEN d.industry ELSE NoneIndustry]

\* frame[cols].to_dict(orient="records") for one row.
to_dict(row, cols) == [c \in cols |-> row[c]]

Columns == {"first_name", "last_name", "salary", "years_of_experience", "industry"}

---------------------------------------------------------------------------
(* Requests and responses.  A request is a record [op, arguments]; the     *)
(* response to it names its op and carries the outcome of the handler.      *)

NoRequest == [op |-> "none"]
Response(r, out) == [op |-> r.op, exc |-> out.exc, ret |-> out.ret]
NoResponse == [op |-> "none", exc |-> "", ret |-> <<>>]

---------------------------------------------------------------------------
(* Query functions.  Each takes the frame load_dataframe() returned and     *)
(* gives [exc, ret]: the exception it raises ("" for none) and its result.  *)

Return(v) == [exc |-> "", ret |-> v]
Raise(e) == [exc |-> e, ret |-> <<>>]

\* A faulty page_data whose slice stops at limit, not offset + limit;
\* C5_PageSlice tells it from page_data.
page_data_stopping_at_limit(df, offset, limit) ==
    LET page == iloc(df, offset, limit)
    IN  List([i \in 1..Len(page) |->
                PersonRecord([c \in Columns |-> replace_nan(c, page[i][c])])])

\* get_paginated_data, lines 69-73: the page's records.
page_data(df, offset, limit) ==
    LET page == iloc(df, offset, offset + limit)
    IN  List([i \in 1..Len(page) |->
                PersonRecord([c \in Columns |-> replace_nan(c, page[i][c])])])

\* A faulty pagination_meta whose total_pages rounds down;
\* C6_PaginationMeta tells it from pagination_meta.
pagination_meta_rounding_down(total_records, offset, limit) ==
    LET current_page == (offset \div limit) + 1
        total_pages == total_records \div limit
    IN  [total_records |-> total_records,
         current_page |-> current_page,
         total_pages |-> total_pages,
         next_page |-> IF current_page < total_pages THEN current_page + 1 ELSE None,
         prev_page |-> IF current_page > 1 THEN current_page - 1 ELSE None]

\* get_paginated_data, lines 75-88: the pagination metadata.
pagination_meta(total_records, offset, limit) ==
    LET current_page == (offset \div limit) + 1
        total_pages == (total_records + limit - 1) \div limit
    IN  [total_records |-> total_records,
         current_page |-> current_page,
         total_pages |-> total_pages,
         next_page |-> IF current_page < total_pages THEN current_page + 1 ELSE None,
         prev_page |-> IF current_page > 1 THEN current_page - 1 ELSE None]

\* A faulty range test that lets offset = total_records through;
\* C7_OutOfRange tells it from out_of_range.
out_of_range_strict(offset, total_records) == offset > total_records

\* get_paginated_data, line 66: the page is out of range.
out_of_range(offset, total_records) == offset >= total_records

get_paginated_data(df, offset, limit) ==
    IF out_of_range(offset, Len(df)) THEN Raise("HTTPException(404)")
    ELSE Return([data |-> page_data(df, offset, limit),
                 pagination |-> pagination_meta(Len(df), offset, limit)])

get_summary(df) ==
    Return([record_count |-> Len(df),
            missing_values |->
                [c \in Columns |-> Cardinality({ i \in 1..Len(df) : isnull(c, df[i][c]) })]])

get_industries(df) == Return(unique(column(df, "industry")))

\* A faulty mask that lowers the stored names only;
\* C10_PersonLookup tells it from name_matches.
name_matches_raw_argument(row, first_name, last_name) ==
    /\ lower(row.first_name) = first_name
    /\ lower(row.last_name) = last_name

\* get_individual_record, lines 130-131: the mask of one row.
name_matches(row, first_name, last_name) ==
    /\ lower(row.first_name) = lower(first_name)
    /\ lower(row.last_name) = lower(last_name)

get_individual_record(df, first_name, last_name) ==
    LET match == SelectSeq(df, LAMBDA row : name_matches(row, first_name, last_name))
    IN  Return(List([i \in 1..Len(match) |-> to_dict(match[i], Columns)]))

get_industry_distribution(df, top_n) ==
    { Return(head(vc, top_n)) : vc \in value_counts(column(df, "industry")) }

get_top_earners(df, n) ==
    { Return(List([i \in 1..Len(head(top, n)) |->
                to_dict(top[i], {"first_name", "last_name", "salary", "industry"})])) :
        top \in sort_values(df, "salary") }

get_top_experienced(df, n) ==
    { Return(List([i \in 1..Len(head(top, n)) |->
                to_dict(top[i], {"first_name", "last_name", "years_of_experience",
                                 "industry"})])) :
        top \in sort_values(df, "years_of_experience") }

---------------------------------------------------------------------------
(* Series.describe() *)

NaNStat == <<0, 0>>

StatKeys == {"count", "mean", "std", "min", "25%", "50%", "75%", "max"}

RECURSIVE Sum(_)
Sum(s) == IF s = <<>> THEN 0 ELSE s[1] + Sum(Tail(s))

RECURSIVE SortAsc(_)
SortAsc(s) ==
    IF s = <<>> THEN <<>>
    ELSE LET m == CHOOSE i \in 1..Len(s) : \A j \in 1..Len(s) : s[i] <= s[j]
         IN  <<s[m]>> \o SortAsc(SubSeq(s, 1, m - 1) \o SubSeq(s, m + 1, Len(s)))

\* Series.quantile(k/4), linear interpolation, on ascending values x (n >= 1):
\* the position is (n-1)*k/4; the value is kept as a fraction over 4.
quantile(x, k) ==
    LET pos == (Len(x) - 1) * k
        lo == pos \div 4
        hi == IF pos % 4 = 0 THEN lo ELSE lo + 1
    IN  <<4 * x[lo + 1] + (pos % 4) * (x[hi + 1] - x[lo + 1]), 4>>

\* Series.describe() of a numeric column: count counts the non-missing
\* values; the other statistics are NaN where pandas cannot compute them
\* (none for an empty selection, no sample deviation for a single value).
\* "std" holds the sample variance (divisor n-1), whose root the code reports.
describe(s) ==
    LET x == SortAsc(SelectSeq(s, LAMBDA v : v # NaN))
        n == Len(x)
        sq == [i \in 1..n |-> x[i] * x[i]]
    IN  [k \in StatKeys |->
            CASE k = "count" -> <<n, 1>>
              [] k = "mean" -> IF n = 0 THEN NaNStat ELSE <<Sum(x), n>>
              [] k = "std" ->
                    IF n < 2 THEN NaNStat
                    ELSE <<n * Sum(sq) - Sum(x) * Sum(x), n * (n - 1)>>
              [] k = "min" -> IF n = 0 THEN NaNStat ELSE <<x[1], 1>>
              [] k = "25%" -> IF n = 0 THEN NaNStat ELSE quantile(x, 1)
              [] k = "50%" -> IF n = 0 THEN NaNStat ELSE quantile(x, 2)
              [] k = "75%" -> IF n = 0 THEN NaNStat ELSE quantile(x, 3)
              [] OTHER -> IF n = 0 THEN NaNStat ELSE <<x[n], 1>>]

\* Series.dropna().to_dict() of the statistics: the computable ones.
dropna(stats) == [k \in { j \in DOMAIN stats : stats[j] # NaNStat } |-> stats[k]]

\* df[df["industry"] == industry] if industry else df: None and "" select
\* the whole frame.
subset(df, industry) ==
    IF industry \in {NoneIndustry, ""} THEN df
    ELSE SelectSeq(df, LAMBDA row : row.industry = industry)

get_salary_stats(df, industry) ==
    Return(dropna(describe(column(subset(df, industry), "salary"))))

get_experience_stats(df, industry) ==
    Return(dropna(describe(column(subset(df, industry), "years_of_experience"))))

---------------------------------------------------------------------------
(* Endpoint handlers (app/api/endpoints.py): the query function's outcome,  *)
(* then FastAPI's validation of the result against the response_model.      *)

NoneStat == <<>>

\* StatsResponse: count, mean, std, min and max are required floats; the
\* percentiles are optional, read by alias.  A result without a required
\* field fails the response validation.
StatsResponse(out) ==
    IF {"count", "mean", "std", "min", "max"} \subseteq DOMAIN out.ret
    THEN Return([k \in StatKeys |-> IF k \in DOMAIN out.ret THEN out.ret[k] ELSE NoneStat])
    ELSE Raise("ResponseValidationError")

\* list[PersonRecord]
PersonRecords(out) == Return(List([i \in 1..Len(out.ret) |-> PersonRecord(out.ret[i])]))

\* The HTTP status FastAPI sends for an outcome.
status_code(out) ==
    IF out.exc = "" THEN 200
    ELSE IF out.exc = "HTTPException(404)" THEN 404
    ELSE 500

\* The outcomes of request r on frame df.  "get_paginated_data" is the query
\* function called directly, with any offset; every other request goes through
\* its endpoint.
endpoint(r, df) ==
    CASE r.op = "summary" -> { get_summary(df) }
      [] r.op = "get_all" -> { get_paginated_data(df, (r.page - 1) * r.limit, r.limit) }
      [] r.op = "get_paginated_data" -> { get_paginated_data(df, r.offset, r.limit) }
      [] r.op = "industries" -> { Return([industries |-> get_industries(df).ret]) }
      [] r.op = "person" ->
            { PersonRecords(get_individual_record(df, r.first_name, r.last_name)) }
      [] r.op = "salary_stats" -> { StatsResponse(get_salary_stats(df, r.industry)) }
      [] r.op = "experience_stats" ->
            { StatsResponse(get_experience_stats(df, r.industry)) }
      [] r.op = "industry_distribution" -> get_industry_distribution(df, r.top_n)
      [] r.op = "top_earners" -> { PersonRecords(o) : o \in get_top_earners(df, r.n) }
      [] OTHER -> { PersonRecords(o) : o \in get_top_experienced(df, r.n) }

---------------------------------------------------------------------------
(* Arguments of the requests *)

AL == <<65, 76>>
bo == <<98, 111>>
Zed == <<90, 101, 100>>
ng == <<110, 103>>
YU == <<89, 85>>

FirstNames == {AL, bo, Zed}
LastNames == {ng, YU}
IndustryFilters == {NoneIndustry, "", "Tech", "Retail", "Mining"}
Threads == 1..NumThreads

---------------------------------------------------------------------------
(* The application *)

NoFrame == [id |-> 0, rows |-> <<>>]

Init ==
    /\ file \in Files
    /\ ready = FALSE
    /\ cache = <<>>
    /\ loads = 0
    /\ req = NoRequest
    /\ resp = NoResponse
    /\ pc = [t \in Threads |-> "idle"]
    /\ treq = [t \in Threads |-> NoRequest]
    /\ local = [t \in Threads |-> NoFrame]
    /\ tresp = [t \in Threads |-> NoResponse]

\* main.py: the module builds the FastAPI object and mounts the router.
\* Nothing here opens the file or calls load_dataframe.
Startup ==
    /\ ~ready
    /\ ready' = TRUE
    /\ UNCHANGED <<file, cache, loads, seqVars, poolVars>>

\* load_dataframe() under lru_cache, called with no other call in progress:
\* a hit returns the cached frame; a miss runs the body and, unless it
\* raises, caches the frame it built.
load_dataframe ==
    IF cache # <<>>
    THEN [ok |-> TRUE, exc |-> "", frame |-> cache[1], miss |-> FALSE]
    ELSE LET b == load_body(file)
         IN  [ok |-> b.ok, exc |-> b.exc,
              frame |-> [id |-> loads + 1, rows |-> b.rows], miss |-> TRUE]

\* The sequential server accepts a request once the application exists and
\* the previous response is sent (MaxLoads bounds the retries of a load that
\* keeps failing).
Accepts ==
    /\ ready
    /\ req = NoRequest
    /\ cache # <<>> \/ loads < MaxLoads

\* The accepted request req' served from start to end.  The query function
\* calls load_dataframe() first; an exception of the load is the request's.
Serve ==
    /\ LET l == load_dataframe
       IN  /\ loads' = IF l.miss THEN loads + 1 ELSE loads
           /\ cache' = IF l.miss /\ l.ok THEN <<l.frame>> ELSE cache
           /\ \E out \in IF l.ok THEN endpoint(req', l.frame.rows) ELSE { Raise(l.exc) } :
                resp' = Response(req', out)
    /\ UNCHANGED <<file, ready, poolVars>>

summary ==
    /\ Accepts
    /\ req' = [op |-> "summary"]
    /\ Serve

get_all ==
    /\ Accepts
    /\ \E page \in 1..(MaxArg + 1), limit \in 1..MaxArg :
        req' = [op |-> "get_all", page |-> page, limit |-> limit]
    /\ Serve

call_get_paginated_data ==
    /\ Accepts
    /\ \E offset \in 0..(MaxArg + 1), limit \in 1..MaxArg :
        req' = [op |-> "get_paginated_data", offset |-> offset, limit |-> limit]
    /\ Serve

industries ==
    /\ Accepts
    /\ req' = [op |-> "industries"]
    /\ Serve

person ==
    /\ Accepts
    /\ \E first_name \in FirstNames, last_name \in LastNames :
        req' = [op |-> "person", first_name |-> first_name, last_name |-> last_name]
    /\ Serve

salary_stats ==
    /\ Accepts
    /\ \E industry \in IndustryFilters :
        req' = [op |-> "salary_stats", industry |-> industry]
    /\ Serve

experience_stats ==
    /\ Accepts
    /\ \E industry \in IndustryFilters :
        req' = [op |-> "experience_stats", industry |-> industry]
    /\ Serve

industry_distribution ==
    /\ Accepts
    /\ \E top_n \in 1..MaxArg : req' = [op |-> "industry_distribution", top_n |-> top_n]
    /\ Serve

\* A faulty top_earners that sorts the cached frame in place
\* (sort_values(..., inplace=True)); C4_DatasetFrozen tells it from top_earners.
top_earners_sorting_in_place ==
    /\ Accepts
    /\ \E n \in 1..MaxArg : req' = [op |-> "top_earners", n |-> n]
    /\ LET l == load_dataframe
       IN  /\ loads' = IF l.miss THEN loads + 1 ELSE loads
           /\ IF l.ok
              THEN \E top \in sort_values(l.frame.rows, "salary") :
                      /\ cache' = <<[id |-> l.frame.id, rows |-> top]>>
                      /\ \E out \in endpoint(req', top) : resp' = Response(req', out)
              ELSE /\ cache' = cache
                   /\ resp' = Response(req', Raise(l.exc))
    /\ UNCHANGED <<file, ready, poolVars>>

top_earners ==
    /\ Accepts
    /\ \E n \in 1..MaxArg : req' = [op |-> "top_earners", n |-> n]
    /\ Serve

top_experienced ==
    /\ Accepts
    /\ \E n \in 1..MaxArg : req' = [op |-> "top_experienced", n |-> n]
    /\ Serve

\* The response is sent; the server is free for the next request.
send_response ==
    /\ req # NoRequest
    /\ req' = NoRequest
    /\ resp' = NoResponse
    /\ UNCHANGED <<file, ready, cache, loads, poolVars>>

Next ==
    \/ Startup
    \/ send_response
    \/ summary
    \/ get_all
    \/ call_get_paginated_data
    \/ industries
    \/ person
    \/ salary_stats
    \/ experience_stats
    \/ industry_distribution
    \/ top_earners
    \/ top_experienced

Spec == Init /\ [][Next]_vars

---------------------------------------------------------------------------
(* The threadpool.  FastAPI runs each "def" handler on a worker thread, so  *)
(* several requests are in progress at once.  functools.lru_cache looks the *)
(* key up, calls the function on a miss without holding any lock, and after *)
(* the call stores the result unless the key has been stored meanwhile (the *)
(* caller then still gets the result of its own call).  An exception of the *)
(* function is not cached.                                                  *)

PoolRequests == { [op |-> "summary"], [op |-> "get_all", page |-> 1, limit |-> 1] }

InitPool == Init /\ Len(file.rows) <= 1

accept(t) ==
    /\ ready
    /\ pc[t] = "idle"
    /\ loads < MaxLoads
    /\ \E r \in PoolRequests : treq' = [treq EXCEPT ![t] = r]
    /\ pc' = [pc EXCEPT ![t] = "lookup"]
    /\ UNCHANGED <<file, ready, cache, loads, seqVars, local, tresp>>

\* lru_cache: the lookup.  A hit returns the cached frame.
cache_lookup(t) ==
    /\ pc[t] = "lookup"
    /\ IF cache # <<>>
       THEN /\ local' = [local EXCEPT ![t] = cache[1]]
            /\ pc' = [pc EXCEPT ![t] = "query"]
       ELSE /\ pc' = [pc EXCEPT ![t] = "body"]
            /\ UNCHANGED local
    /\ UNCHANGED <<file, ready, cache, loads, seqVars, treq, tresp>>

\* The body of load_dataframe, run by the thread that missed.  What it
\* raises ends the request.
run_body(t) ==
    /\ pc[t] = "body"
    /\ loads' = loads + 1
    /\ LET b == load_body(file)
       IN  IF b.ok
           THEN /\ local' = [local EXCEPT ![t] = [id |-> loads + 1, rows |-> b.rows]]
                /\ pc' = [pc EXCEPT ![t] = "store"]
                /\ UNCHANGED tresp
           ELSE /\ tresp' = [tresp EXCEPT ![t] = Response(treq[t], Raise(b.exc))]
                /\ pc' = [pc EXCEPT ![t] = "done"]
                /\ UNCHANGED local
    /\ UNCHANGED <<file, ready, cache, seqVars, treq>>

\* lru_cache: after the call.  The result is stored unless another thread
\* stored one during the call; the thread goes on with its own result.
cache_store(t) ==
    /\ pc[t] = "store"
    /\ cache' = IF cache = <<>> THEN <<local[t]>> ELSE cache
    /\ pc' = [pc EXCEPT ![t] = "query"]
    /\ UNCHANGED <<file, ready, loads, seqVars, treq, local, tresp>>

\* The rest of the query function and of the handler, on the thread's frame.
run_query(t) ==
    /\ pc[t] = "query"
    /\ \E out \in endpoint(treq[t], local[t].rows) :
        tresp' = [tresp EXCEPT ![t] = Response(treq[t], out)]
    /\ pc' = [pc EXCEPT ![t] = "done"]
    /\ UNCHANGED <<file, ready, cache, loads, seqVars, treq, local>>

\* The response is sent; the thread returns to the pool.
reply(t) ==
    /\ pc[t] = "done"
    /\ pc' = [pc EXCEPT ![t] = "idle"]
    /\ treq' = [treq EXCEPT ![t] = NoRequest]
    /\ local' = [local EXCEPT ![t] = NoFrame]
    /\ tresp' = [tresp EXCEPT ![t] = NoResponse]
    /\ UNCHANGED <<file, ready, cache, loads, seqVars>>

NextPool ==
    \/ Startup
    \/ \E t \in Threads : accept(t)
    \/ \E t \in Threads : cache_lookup(t)
    \/ \E t \in Threads : run_body(t)
    \/ \E t \in Threads : cache_store(t)
    \/ \E t \in Threads : run_query(t)
    \/ \E t \in Threads : reply(t)

SpecPool == InitPool /\ [][NextPool]_vars

---------------------------------------------------------------------------
(* Properties.  What a response should be is stated from the file's records, *)
(* not through the operators above.                                          *)

Total == Len(file.rows)

\* A numeric cell of the file as a frame holds it / as a page shows it.
AsNumber(v) == IF v >= 0 THEN v ELSE NaN
Shown(v) == IF v >= 0 THEN v ELSE None

Paginated == req.op \in {"get_all", "get_paginated_data"}
Offset == IF req.op = "get_all" THEN (req.page - 1) * req.limit ELSE req.offset

\* C1: with a loadable file, whatever requests are served and however they
\* overlap, the body of load_dataframe runs at most once, and every thread
\* that goes on to its query holds the one cached frame.
C1_SingleFlight ==
    load_body(file).ok =>
        /\ loads <= 1
        /\ \A t \in Threads :
            pc[t] = "query" => cache # <<>> /\ local[t].id = cache[1].id

\* C2: with a file that is missing or cannot be loaded, no request is ever
\* accepted and none is answered with the load's exception.
C2_StartupFatal ==
    ~load_body(file).ok =>
        /\ req = NoRequest
        /\ resp.exc \notin {"FileNotFoundError", "JSONDecodeError", "KeyError"}

\* The non-missing values a stats request selects.
Selected ==
    LET col == IF req.op = "salary_stats" THEN "salary" ELSE "years_of_experience"
    IN  { i \in 1..Total :
            /\ req.industry \in {NoneIndustry, ""} \/ file.rows[i].industry = req.industry
            /\ file.rows[i][col] >= 0 }

\* C3: a salary-stats or experience-stats request that selects fewer than two
\* non-missing values completes without an error, and the statistics that
\* cannot be computed are null in its result.
C3_DegenerateStats ==
    (req.op \in {"salary_stats", "experience_stats"} /\ cache # <<>>
        /\ Cardinality(Selected) < 2) =>
        /\ resp.exc = ""
        /\ status_code(resp) = 200
        /\ resp.ret["std"] = NoneStat
        /\ Cardinality(Selected) = 0 => resp.ret["mean"] = NoneStat

\* The frame right after the load.
Snapshot ==
    List([i \in 1..Total |->
            [index |-> i - 1,
             first_name |-> file.rows[i].first_name,
             last_name |-> file.rows[i].last_name,
             salary |-> AsNumber(file.rows[i].salary),
             years_of_experience |-> AsNumber(file.rows[i].years_of_experience),
             industry |-> file.rows[i].industry]])

\* C4: once the dataset is loaded, the cached frame holds the records, values
\* and order it had right after the load, whatever requests were served, and
\* the response of a request is one its arguments and that frame determine.
C4_DatasetFrozen ==
    cache # <<>> =>
        /\ cache[1].rows = Snapshot
        /\ req # NoRequest =>
            \E out \in endpoint(req, Snapshot) : resp = Response(req, out)

C4_Witness ==
    /\ cache # <<>>
    /\ req.op = "top_earners"
    /\ resp.exc = ""
    /\ Total = 3
    /\ file.rows[1].salary = 1
    /\ file.rows[3].salary = 2

ExpectedPerson(row) ==
    [first_name |-> row.first_name,
     last_name |-> row.last_name,
     salary |-> Shown(row.salary),
     years_of_experience |-> Shown(row.years_of_experience),
     industry |-> row.industry]

\* C5: a page request with offset < total returns min(limit, total - offset)
\* records: the records at positions offset, offset+1, ... of the file, in
\* that order.
C5_PageSlice ==
    (Paginated /\ Offset < Total) =>
        /\ resp.exc = ""
        /\ Len(resp.ret.data) = Min(req.limit, Total - Offset)
        /\ \A i \in 1..Len(resp.ret.data) :
            resp.ret.data[i] = ExpectedPerson(file.rows[Offset + i])

C5_Witness ==
    /\ req.op = "get_paginated_data"
    /\ req.offset = 1
    /\ req.limit = 3
    /\ Total = 3
    /\ resp.exc = ""
    /\ Len(resp.ret.data) = 2
    /\ resp.ret.data[1] # resp.ret.data[2]
    /\ resp.ret.data[1].salary = None

Ceil(a, b) == CHOOSE k \in 0..a : k * b >= a /\ (k = 0 \/ (k - 1) * b < a)

\* C6: the metadata of a page request with offset < total: current_page is
\* the page offset lies on, total_pages is ceil(total/limit), next_page is
\* None exactly on the last page (else current_page + 1) and prev_page is
\* None exactly on the first page (else current_page - 1).
C6_PaginationMeta ==
    (Paginated /\ Offset < Total) =>
        /\ resp.exc = ""
        /\ LET m == resp.ret.pagination
           IN  /\ m.current_page * req.limit - req.limit <= Offset
               /\ Offset < m.current_page * req.limit
               /\ m.total_pages = Ceil(Total, req.limit)
               /\ m.next_page =
                    IF m.current_page = m.total_pages THEN None ELSE m.current_page + 1
               /\ m.prev_page = IF m.current_page = 1 THEN None ELSE m.current_page - 1

C6_Witness ==
    /\ req.op = "get_paginated_data"
    /\ req.offset = 1
    /\ req.limit = 1
    /\ Total = 3
    /\ resp.exc = ""
    /\ resp.ret.pagination.total_pages = 3
    /\ resp.ret.pagination.next_page = 3
    /\ resp.ret.pagination.prev_page = 1

Before(col, i, j) ==
    LET a == file.rows[i][col]
        b == file.rows[j][col]
    IN  IF a >= 0 /\ b >= 0 THEN a > b \/ (a = b /\ i < j)
        ELSE IF a >= 0 THEN TRUE
        ELSE IF b >= 0 THEN FALSE
        ELSE i < j

Ranked(col) ==
    CHOOSE p \in Perms(Total) : \A i, j \in 1..Total : i < j => Before(col, p[i], p[j])

\* C8: top earners / top experienced returns min(n, total) records in
\* descending order of the field, missing values last, records of equal
\* value in file order.
C8_TopN ==
    (req.op \in {"top_earners", "top_experienced"} /\ cache # <<>>) =>
        LET col == IF req.op = "top_earners" THEN "salary" ELSE "years_of_experience"
            p == Ranked(col)
        IN  /\ resp.exc = ""
            /\ Len(resp.ret) = Min(req.n, Total)
            /\ \A i \in 1..Len(resp.ret) :
                /\ resp.ret[i].first_name = file.rows[p[i]].first_name
                /\ resp.ret[i].last_name = file.rows[p[i]].last_name
                /\ resp.ret[i].industry = file.rows[p[i]].industry
                /\ resp.ret[i][col] = AsNumber(file.rows[p[i]][col])

Industries == { file.rows[i].industry : i \in 1..Total } \ {NoneIndustry}
CountOf(ind) == Cardinality({ i \in 1..Total : file.rows[i].industry = ind })
FirstOf(ind) == CHOOSE i \in 1..Total :
    file.rows[i].industry = ind /\ \A j \in 1..(i - 1) : file.rows[j].industry # ind

\* C9: the industry distribution has min(top_n, distinct industries) entries
\* <<industry, count>>, by count descending, industries of equal count in
\* order of first occurrence.
C9_IndustryDistribution ==
    (req.op = "industry_distribution" /\ cache # <<>>) =>
        /\ resp.exc = ""
        /\ Len(resp.ret) = Min(req.top_n, Cardinality(Industries))
        /\ \A i \in 1..Len(resp.ret) :
            /\ resp.ret[i][1] \in Industries
            /\ resp.ret[i][2] = CountOf(resp.ret[i][1])
            /\ \A ind \in Industries :
                LET here == resp.ret[i][1]
                    ahead == \/ CountOf(ind) > CountOf(here)
                             \/ CountOf(ind) = CountOf(here) /\ FirstOf(ind) < FirstOf(here)
                IN  ahead <=> \E j \in 1..(i - 1) : resp.ret[j][1] = ind

SameIgnoringCase(a, b) ==
    /\ Len(a) = Len(b)
    /\ \A i \in 1..Len(a) :
        \/ a[i] = b[i]
        \/ a[i] \in 65..90 /\ b[i] = a[i] + 32
        \/ b[i] \in 65..90 /\ a[i] = b[i] + 32

Matching ==
    SelectSeq([i \in 1..Total |-> i],
              LAMBDA i : /\ SameIgnoringCase(file.rows[i].first_name, req.first_name)
                         /\ SameIgnoringCase(file.rows[i].last_name, req.last_name))

\* C10: a person lookup returns the records whose first and last name equal
\* the given ones ignoring case, all of them, in file order, and no other;
\* with no such record it returns the empty list, not an error.
C10_PersonLookup ==
    (req.op = "person" /\ cache # <<>>) =>
        /\ resp.exc = ""
        /\ Len(resp.ret) = Len(Matching)
        /\ \A k \in 1..Len(Matching) :
            LET row == file.rows[Matching[k]]
            IN  /\ resp.ret[k].first_name = row.first_name
                /\ resp.ret[k].last_name = row.last_name
                /\ resp.ret[k].salary = AsNumber(row.salary)
                /\ resp.ret[k].years_of_experience = AsNumber(row.years_of_experience)
                /\ resp.ret[k].industry = row.industry

C10_Witness ==
    /\ req.op = "person"
    /\ req.first_name = AL
    /\ Total = 3
    /\ resp.exc = ""
    /\ Len(resp.ret) = 2
    /\ resp.ret[1].first_name # resp.ret[2].first_name
    /\ resp.ret[1].last_name # resp.ret[2].last_name

====
